---- MODULE Spec2Model ----
(***************************************************************************)
(* Model of src/game/gameplay.rs of wavebreaker-rs: the send_ride handler  *)
(* (score submission, dethrone evaluation, score upsert) and the get_rides *)
(* handler (per-league three-way leaderboard fan-out).                     *)
(*                                                                         *)
(* Every .await of a handler is one action, so concurrent requests         *)
(* interleave exactly where the async runtime can switch tasks.            *)
(* Time is counted in ticks; TicksPerSecond ticks make one second.  The    *)
(* clock advances when it is read, by any amount.                          *)
(*                                                                         *)
(* Spec runs submissions alone, SpecRides retrievals alone, SpecServer a   *)
(* submission next to a retrieval, and SpecPool the requests that share    *)
(* the connection pool, with clients that go away.                         *)
(***************************************************************************)
EXTENDS Integers, Sequences, FiniteSets, TLC

VARIABLES
    scores,     \* the scores table: a set of rows
    rivalries,  \* the rivalries table: a set of <<challenger, rival>> pairs
    now,        \* the wall clock, in ticks
    pool,       \* connections available in state.db
    hist,       \* history: every create_or_update call that was executed
    faults,     \* failures and malformed inputs so far
    quota,      \* requests still to arrive: [send |-> n, get |-> m]
    sr,         \* the send_ride requests: locals and position of each
    gr          \* the get_rides requests: locals and position of each

vars == <<scores, rivalries, now, pool, hist, faults, quota, sr, gr>>

----------------------------------------------------------------------------
(* Bounds of the model *)

MaxSubmits == 2
MaxGets == 1
MaxFaults == 1
MaxTime == 2
TicksPerSecond == 2
PoolSize == 4

\* the requests in flight at once: two submissions, one retrieval
SendReqs == {1, 2}
GetReqs == {1}

----------------------------------------------------------------------------
(* Data *)

Players == {1, 2, 3}
SongId == 1
ScoreValues == {50, 80}
ALL_LEAGUES == <<"Casual", "Pro", "Elite">>
SendLeagues == {"Casual"}

Username(p) == <<"player", p>>
LocationOf(p) == IF p = 2 THEN 2 ELSE 1

NoOne == "No one"
SentinelRivalScore == 143
ServerTime == 143
TopN == 2

None == [none |-> TRUE]

Row(i, p, l, sc, t) ==
    [id |-> i, player_id |-> p, song_id |-> SongId, league |-> l,
     score |-> sc, submitted_at |-> t]

\* what the scores table holds when the server starts: rows of earlier runs
InitStores ==
    { {Row(1, 3, "Casual", 50, 0), Row(2, 2, "Pro", 80, 0)} }

\* the create_or_update calls that wrote a table of single-submission rows
HistOf(table) ==
    {[player_id |-> row.player_id, song_id |-> row.song_id,
      league |-> row.league, score |-> row.score, at |-> row.submitted_at] :
        row \in table}

\* 1 and 2 are mutual rivals, 1 -> 3 is one-way, 2 and 3 have no edge
RivalryChoices == { {<<1, 2>>, <<2, 1>>, <<1, 3>>} }

----------------------------------------------------------------------------
(* Pure helpers *)

Max(S) == CHOOSE x \in S : \A y \in S : y <= x
Min(S) == CHOOSE x \in S : \A y \in S : x <= y

\* time::Duration::whole_seconds: truncation toward zero
WholeSeconds(d) ==
    IF d >= 0 THEN d \div TicksPerSecond ELSE -((-d) \div TicksPerSecond)

SameKey(row, p, s, l) ==
    row.player_id = p /\ row.song_id = s /\ row.league = l

RowsOfKey(table, p, s, l) == {row \in table : SameKey(row, p, s, l)}

\* the filter player_id.ne(player.id) left out
OtherRowsAnyPlayer(table, s, l, p) ==
    {row \in table : row.song_id = s /\ row.league = l}

\* the rows the current-top query ranks: same song, same league, other player
OtherRows(table, s, l, p) ==
    {row \in table : row.song_id = s /\ row.league = l /\ row.player_id # p}

MaxRows(S) == {row \in S : \A o \in S : o.score <= row.score}

\* .order(score.desc()).first().optional(): a row of highest score, the
\* database picks among ties; None when nothing matches
CurrentTopChoices(table, s, l, p) ==
    IF OtherRows(table, s, l, p) = {} THEN {None}
    ELSE MaxRows(OtherRows(table, s, l, p))

----------------------------------------------------------------------------
(* models/rivalries.rs, models/scores.rs: not part of the given source *)

\* Rivalry::is_mutual of the edge (a -> b) that was found: does (b -> a) exist
IsMutual(a, b) == <<b, a>> \in rivalries

NewRow(table, new, t) ==
    [id |-> Cardinality(table) + 1, player_id |-> new.player_id,
     song_id |-> new.song_id, league |-> new.league, score |-> new.score,
     submitted_at |-> t]

\* an upsert that replaces the row whatever its score
CreateOrUpdateAlways(table, new, t) ==
    LET ex == RowsOfKey(table, new.player_id, new.song_id, new.league)
    IN IF ex = {}
       THEN table \cup {NewRow(table, new, t)}
       ELSE (table \ ex) \cup
            {[row EXCEPT !.score = new.score, !.submitted_at = t] : row \in ex}

\* an upsert that inserts a second row instead of replacing
CreateOrUpdateInsert(table, new, t) ==
    LET ex == RowsOfKey(table, new.player_id, new.song_id, new.league)
    IN IF \A row \in ex : row.score < new.score
       THEN table \cup {NewRow(table, new, t)}
       ELSE table

\* NewScore::create_or_update: insert when the key has no row, replace score
\* and submission time only when the new score is strictly greater
CreateOrUpdate(table, new, t) ==
    LET ex == RowsOfKey(table, new.player_id, new.song_id, new.league)
    IN IF ex = {}
       THEN table \cup {NewRow(table, new, t)}
       ELSE (table \ ex) \cup
            {IF row.score < new.score
             THEN [row EXCEPT !.score = new.score, !.submitted_at = t]
             ELSE row : row \in ex}

----------------------------------------------------------------------------
(* send_ride *)

SentinelBeatScore ==
    [dethroned |-> FALSE, friend |-> FALSE, rival_name |-> NoOne,
     rival_score |-> SentinelRivalScore, my_score |-> 0, reign_seconds |-> 0]

\* a slip in the comparison: an equal score counts as a dethrone
BeatScoreOfLax(top, payload, mutual, reign_duration) ==
    [dethroned |-> top.score <= payload.score,
     friend |-> mutual,
     rival_name |-> Username(top.player_id),
     rival_score |-> top.score,
     my_score |-> payload.score,
     reign_seconds |-> WholeSeconds(reign_duration)]

BeatScoreOf(top, payload, mutual, reign_duration) ==
    [dethroned |-> top.score < payload.score,
     friend |-> mutual,
     rival_name |-> Username(top.player_id),
     rival_score |-> top.score,
     my_score |-> payload.score,
     reign_seconds |-> WholeSeconds(reign_duration)]

\* the subtraction the wrong way round
ReignDurationSwapped(t, top) == top.submitted_at - t

\* OffsetDateTime::now_utc() - current_top.0.submitted_at
ReignDuration(t, top) == t - top.submitted_at

\* a slip in the positional i32 arguments of NewScore::new
NewScoreOfSwapped(player, payload) ==
    [player_id |-> player, song_id |-> payload.song_id,
     league |-> payload.league, score |-> payload.song_id]

NewScoreOf(player, payload) ==
    [player_id |-> player, song_id |-> payload.song_id,
     league |-> payload.league, score |-> payload.score]

\* locals of a send_ride task; seen_others, top_written and evaluated_at are
\* history: what the current-top query could see, when the holder's score was
\* first submitted, and when the clock was read; enrich_logged is the error!
\* line written when auto_add_metadata fails
SendIdle ==
    [pc |-> "idle", payload |-> None, current_top |-> None,
     reign_duration |-> 0, beat_score |-> None, res |-> "none",
     err |-> "", response |-> None,
     seen_others |-> {}, top_written |-> 0, evaluated_at |-> 0,
     enrich_logged |-> FALSE]

CallsOf(h, p, s, l) ==
    {c \in h : c.player_id = p /\ c.song_id = s /\ c.league = l}

\* the time of the call that first submitted the highest score of a key
FirstMaxAt(h, p, s, l) ==
    LET calls == CallsOf(h, p, s, l)
        best == Max({c.score : c \in calls})
    IN Min({c.at : c \in {d \in calls : d.score = best}})

\* the form fields the model follows; player is the player of the ticket
Payloads ==
    [player : Players, song_id : {SongId}, league : SendLeagues,
     score : ScoreValues]

\* the clock is read: `now` is the time of the latest reading, and any
\* amount of time up to MaxTime may have passed since the one before
ClockRead == now' \in now..MaxTime

\* one more failure (of Steam, the pool, the database) or malformed input may
\* still occur
MayFail == faults < MaxFaults

HoldsConn(q) == q.pc \in {"player", "song", "top", "rivalry", "mutual",
                           "upsert", "enrich"}

\* an early return that keeps the connection checked out
SendReturnErrLeaking(r, why) ==
    /\ sr' = [sr EXCEPT ![r] = [SendIdle EXCEPT !.pc = "done", !.res = "err",
                                                !.err = why]]
    /\ pool' = pool

\* an early return through `?`: the locals and the connection, if held, are
\* dropped
SendReturnErr(r, why) ==
    /\ sr' = [sr EXCEPT ![r] = [SendIdle EXCEPT !.pc = "done", !.res = "err",
                                                !.err = why]]
    /\ pool' = IF HoldsConn(sr[r]) THEN pool + 1 ELSE pool

\* a step of the request fails (Steam, the pool or the database)
SendFail(r, why) ==
    /\ MayFail
    /\ faults' = faults + 1
    /\ SendReturnErr(r, why)

Free(q) == q.pc \in {"idle", "done"}

\* the client has gone and the handler's future is dropped at the await it
\* is suspended in: no response, the locals and the connection are dropped
SendCancel(r) ==
    /\ ~Free(sr[r])
    /\ MayFail
    /\ faults' = faults + 1
    /\ sr' = [sr EXCEPT ![r] = [SendIdle EXCEPT !.pc = "done",
                                                !.res = "cancelled"]]
    /\ pool' = IF HoldsConn(sr[r]) THEN pool + 1 ELSE pool
    /\ UNCHANGED <<scores, rivalries, now, hist, quota, gr>>

\* a request arrives and axum has deserialized the form into the payload; it
\* runs as a new task (the lowest slot whose task has ended)
SendStart(r) ==
    /\ Free(sr[r])
    /\ \A q \in DOMAIN sr : q < r => ~Free(sr[q])
    /\ quota.send > 0
    /\ quota' = [quota EXCEPT !.send = @ - 1]
    /\ \E p \in Payloads :
         sr' = [sr EXCEPT ![r] = [SendIdle EXCEPT !.pc = "auth", !.payload = p]]
    /\ UNCHANGED <<scores, rivalries, now, pool, hist, faults, gr>>

\* a failed authentication that is not looked at
SendAuthUnchecked(r) ==
    /\ sr[r].pc = "auth"
    /\ \/ UNCHANGED faults
       \/ MayFail /\ faults' = faults + 1
    /\ sr' = [sr EXCEPT ![r].pc = "conn"]
    /\ UNCHANGED <<scores, rivalries, now, pool, hist, quota, gr>>

\* ticket_auth(&payload.ticket, &state.steam_api).await?
SendAuth(r) ==
    /\ sr[r].pc = "auth"
    /\ \/ sr' = [sr EXCEPT ![r].pc = "conn"] /\ UNCHANGED <<pool, faults>>
       \/ SendFail(r, "auth")
    /\ UNCHANGED <<scores, rivalries, now, hist, quota, gr>>

SendConn(r) ==
    /\ sr[r].pc = "conn"
    /\ \/ /\ pool > 0
          /\ pool' = pool - 1
          /\ sr' = [sr EXCEPT ![r].pc = "player"]
          /\ UNCHANGED faults
       \/ SendFail(r, "pool")
    /\ UNCHANGED <<scores, rivalries, now, hist, quota, gr>>

SendPlayer(r) ==
    /\ sr[r].pc = "player"
    /\ \/ sr' = [sr EXCEPT ![r].pc = "song"] /\ UNCHANGED <<pool, faults>>
       \/ SendFail(r, "db")
    /\ UNCHANGED <<scores, rivalries, now, hist, quota, gr>>

SendSong(r) ==
    /\ sr[r].pc = "song"
    /\ \/ sr' = [sr EXCEPT ![r].pc = "top"] /\ UNCHANGED <<pool, faults>>
       \/ SendFail(r, "notfound")
    /\ UNCHANGED <<scores, rivalries, now, hist, quota, gr>>

\* history: the rows of other players on the request's song and league
SeenOthers(r) ==
    {row \in scores : /\ row.song_id = sr[r].payload.song_id
                      /\ row.league = sr[r].payload.league
                      /\ row.player_id # sr[r].payload.player}

\* the current-top query, then reign_duration from the clock and, when no
\* other player has a row, the sentinel summary
SendTop(r) ==
    /\ sr[r].pc = "top"
    /\ \/ /\ \E top \in CurrentTopChoices(scores, sr[r].payload.song_id,
                                          sr[r].payload.league,
                                          sr[r].payload.player) :
               IF top = None
               THEN /\ sr' = [sr EXCEPT ![r].pc = "upsert",
                                        ![r].current_top = None,
                                        ![r].beat_score = SentinelBeatScore,
                                        ![r].seen_others = SeenOthers(r)]
                    /\ UNCHANGED now
               ELSE /\ ClockRead
                    /\ sr' = [sr EXCEPT ![r].pc = "rivalry",
                                        ![r].current_top = top,
                                        ![r].reign_duration =
                                            ReignDuration(now', top),
                                        ![r].seen_others = SeenOthers(r),
                                        ![r].top_written =
                                            FirstMaxAt(hist, top.player_id,
                                                       top.song_id, top.league),
                                        ![r].evaluated_at = now']
          /\ UNCHANGED <<pool, faults>>
       \/ SendFail(r, "db") /\ UNCHANGED now
    /\ UNCHANGED <<scores, rivalries, hist, quota, gr>>

\* rivalries.find((player.id, current_top.1.id)).first(): Ok when the edge is
\* there and the query worked; every Err (no such edge, or a failed query)
\* takes the else branch, mutual = false
SendRivalry(r) ==
    /\ sr[r].pc = "rivalry"
    /\ \/ /\ <<sr[r].payload.player, sr[r].current_top.player_id>> \in rivalries
          /\ sr' = [sr EXCEPT ![r].pc = "mutual"]
          /\ UNCHANGED faults
       \/ /\ \/ /\ <<sr[r].payload.player, sr[r].current_top.player_id>>
                      \notin rivalries
                /\ UNCHANGED faults
             \/ /\ MayFail
                /\ faults' = faults + 1
          /\ sr' = [sr EXCEPT ![r].pc = "upsert",
                              ![r].beat_score =
                                  BeatScoreOf(sr[r].current_top, sr[r].payload,
                                              FALSE, sr[r].reign_duration)]
    /\ UNCHANGED <<scores, rivalries, now, pool, hist, quota, gr>>

SendMutual(r) ==
    /\ sr[r].pc = "mutual"
    /\ sr' = [sr EXCEPT ![r].pc = "upsert",
                        ![r].beat_score =
                            BeatScoreOf(sr[r].current_top, sr[r].payload,
                                        IsMutual(sr[r].payload.player,
                                                 sr[r].current_top.player_id),
                                        sr[r].reign_duration)]
    /\ UNCHANGED <<scores, rivalries, now, pool, hist, faults, quota, gr>>

\* the track_shape and xstats fields are parsed (a malformed field is found
\* here, where it is first read, and returns an error), NewScore::new(..),
\* then create_or_update
SendUpsert(r) ==
    /\ sr[r].pc = "upsert"
    /\ \/ SendFail(r, "validation") /\ UNCHANGED <<scores, hist, now>>
       \/ /\ ClockRead
          /\ scores' = CreateOrUpdate(
                           scores,
                           NewScoreOf(sr[r].payload.player, sr[r].payload),
                           now')
          /\ hist' = hist \cup
                 {[player_id |-> sr[r].payload.player,
                   song_id |-> sr[r].payload.song_id,
                   league |-> sr[r].payload.league,
                   score |-> sr[r].payload.score,
                   at |-> now']}
          /\ sr' = [sr EXCEPT ![r].pc = "enrich"]
          /\ UNCHANGED <<pool, faults>>
       \/ SendFail(r, "db") /\ UNCHANGED <<scores, hist, now>>
    /\ UNCHANGED <<rivalries, quota, gr>>

SendRideResponse(q) ==
    [status |-> "allgood", song_id |-> q.payload.song_id,
     beat_score |-> q.beat_score]

\* an enrichment whose error ends the request
SendEnrichFatal(r) ==
    /\ sr[r].pc = "enrich"
    /\ \/ /\ sr' = [sr EXCEPT ![r] =
                       [SendIdle EXCEPT !.pc = "done", !.res = "ok",
                                        !.response = SendRideResponse(sr[r])]]
          /\ pool' = pool + 1
          /\ UNCHANGED faults
       \/ SendFail(r, "enrich")
    /\ UNCHANGED <<scores, rivalries, now, hist, quota, gr>>

\* song.auto_add_metadata: its error is only logged; then the response
SendEnrich(r) ==
    /\ sr[r].pc = "enrich"
    /\ \E failed \in BOOLEAN :
         /\ failed => MayFail
         /\ faults' = IF failed THEN faults + 1 ELSE faults
         /\ sr' = [sr EXCEPT ![r] =
                      [SendIdle EXCEPT !.pc = "done", !.res = "ok",
                                       !.response = SendRideResponse(sr[r]),
                                       !.enrich_logged = failed]]
    /\ pool' = pool + 1
    /\ UNCHANGED <<scores, rivalries, now, hist, quota, gr>>

----------------------------------------------------------------------------
(* get_rides *)

Views == <<"global", "rival", "nearby">>
ViewSet == {Views[i] : i \in DOMAIN Views}

Pending == [pending |-> TRUE]
Failed == [failed |-> TRUE]
Done(list) == [list |-> list]

\* locals of a get_rides task; held counts its pooled connections, failed,
\* join_order and table_at_start are history: whether a sub-query or a
\* connection acquisition failed, the order in which the futures of the
\* latest join completed, and the scores table when the request arrived
GetIdle ==
    [pc |-> "idle", player |-> 0, rival_ids |-> {}, league_i |-> 0,
     held |-> 0, fut |-> [v \in ViewSet |-> Pending],
     global_rides |-> <<>>, rival_rides |-> <<>>, nearby_rides |-> <<>>,
     res |-> "none", err |-> "", response |-> None,
     failed |-> FALSE, join_order |-> <<>>, table_at_start |-> {}]

\* Player::get_rivals: the targets of the player's outgoing edges
GetRivals(p) == {e[2] : e \in {x \in rivalries : x[1] = p}}

\* rival_ids without the push of player.id
RivalIdsWithoutSelf(p) == GetRivals(p)

\* rival_ids after the push of player.id
RivalIds(p) == GetRivals(p) \cup {p}

\* every ranking of at most n rows of S by score descending, ties in any order
RECURSIVE TopLists(_, _)
TopLists(S, n) ==
    IF S = {} \/ n = 0 THEN {<<>>}
    ELSE UNION {{<<row>> \o rest : rest \in TopLists(S \ {row}, n - 1)} :
                    row \in MaxRows(S)}

\* Score::game_get_global, game_get_rivals, game_get_nearby
GameGetGlobal(table, s, l) ==
    TopLists({row \in table : row.song_id = s /\ row.league = l}, TopN)

GameGetRivals(table, s, l, ids) ==
    TopLists({row \in table : /\ row.song_id = s /\ row.league = l
                              /\ row.player_id \in ids}, TopN)

GameGetNearby(table, s, l, loc) ==
    TopLists({row \in table : /\ row.song_id = s /\ row.league = l
                              /\ LocationOf(row.player_id) = loc}, TopN)

\* the three queries answered from views computed when the server started
QueryOutputsCached(g, v, l) ==
    LET table == CHOOSE t \in InitStores : TRUE
    IN IF v = "global" THEN GameGetGlobal(table, SongId, l)
       ELSE IF v = "rival"
            THEN GameGetRivals(table, SongId, l, gr[g].rival_ids)
            ELSE GameGetNearby(table, SongId, l, LocationOf(gr[g].player))

\* what the future of view v on league l may resolve to for task g: each
\* query reads the scores table through its connection when it runs
QueryOutputs(g, v, l) ==
    IF v = "global" THEN GameGetGlobal(scores, SongId, l)
    ELSE IF v = "rival"
         THEN GameGetRivals(scores, SongId, l, gr[g].rival_ids)
         ELSE GameGetNearby(scores, SongId, l, LocationOf(gr[g].player))

\* OffsetDateTime::unix_timestamp: whole seconds
UnixTimestamp(t) == t \div TicksPerSecond

RideOf(row) ==
    [username |-> Username(row.player_id), score |-> row.score,
     time |-> UnixTimestamp(row.submitted_at), traffic_count |-> row.id]

\* create_league_rides
CreateLeagueRides(league, list) ==
    [league_id |-> league, ride |-> [k \in 1..Len(list) |-> RideOf(list[k])]]

\* the rows a finished future hands over
ListOf(f) == IF f = Failed THEN <<>> ELSE f.list

\* a join that lets a failed future pass as an empty result
TryJoinLenient(fut) ==
    IF \A v \in ViewSet : fut[v] # Pending THEN "ok" ELSE "pending"

\* try_join!(global_future, rival_future, nearby_future)?
TryJoin(fut) ==
    IF \E v \in ViewSet : fut[v] = Failed THEN "err"
    ELSE IF \A v \in ViewSet : fut[v] # Pending THEN "ok" ELSE "pending"

\* the tuple of the join taken apart in the wrong order
PushLeagueCrossed(q, league, fut) ==
    [q EXCEPT
       !.global_rides =
           Append(@, CreateLeagueRides(league, ListOf(fut["global"]))),
       !.rival_rides =
           Append(@, CreateLeagueRides(league, ListOf(fut["nearby"]))),
       !.nearby_rides =
           Append(@, CreateLeagueRides(league, ListOf(fut["rival"])))]

\* the three pushes at the end of a league's iteration
PushLeague(q, league, fut) ==
    [q EXCEPT
       !.global_rides =
           Append(@, CreateLeagueRides(league, ListOf(fut["global"]))),
       !.rival_rides =
           Append(@, CreateLeagueRides(league, ListOf(fut["rival"]))),
       !.nearby_rides =
           Append(@, CreateLeagueRides(league, ListOf(fut["nearby"])))]

\* the views of the response listed in another order
GetRidesResponseShuffled(q) ==
    [status |-> "allgood",
     scores |-> <<[score_type |-> "Friend", league |-> q.rival_rides],
                  [score_type |-> "Global", league |-> q.global_rides],
                  [score_type |-> "Nearby", league |-> q.nearby_rides]>>,
     server_time |-> ServerTime]

GetRidesResponse(q) ==
    [status |-> "allgood",
     scores |-> <<[score_type |-> "Global", league |-> q.global_rides],
                  [score_type |-> "Friend", league |-> q.rival_rides],
                  [score_type |-> "Nearby", league |-> q.nearby_rides]>>,
     server_time |-> ServerTime]

\* the task ends: its locals and connections are dropped
GetDropped(q) ==
    [q EXCEPT !.pc = "done", !.held = 0,
              !.fut = [v \in ViewSet |-> Pending],
              !.global_rides = <<>>, !.rival_rides = <<>>,
              !.nearby_rides = <<>>]

\* an early return through `?`
GetFail(g, why) ==
    /\ MayFail
    /\ faults' = faults + 1
    /\ gr' = [gr EXCEPT ![g] = [GetDropped(gr[g]) EXCEPT !.res = "err",
                                                        !.err = why]]
    /\ pool' = pool + gr[g].held

\* as GetFail, for a failed connection acquisition or sub-query
GetFailQuery(g, why) ==
    /\ MayFail
    /\ faults' = faults + 1
    /\ gr' = [gr EXCEPT ![g] = [GetDropped(gr[g]) EXCEPT !.res = "err",
                                                        !.err = why,
                                                        !.failed = TRUE]]
    /\ pool' = pool + gr[g].held

\* the client has gone and the handler's future, with the futures of the
\* join inside it, is dropped: no response, every connection held is returned
GetCancel(g) ==
    /\ ~Free(gr[g])
    /\ MayFail
    /\ faults' = faults + 1
    /\ gr' = [gr EXCEPT ![g] = [GetDropped(gr[g]) EXCEPT !.res = "cancelled"]]
    /\ pool' = pool + gr[g].held
    /\ UNCHANGED <<scores, rivalries, now, hist, quota, sr>>

GetStart(g) ==
    /\ Free(gr[g])
    /\ \A q \in DOMAIN gr : q < g => ~Free(gr[q])
    /\ quota.get > 0
    /\ quota' = [quota EXCEPT !.get = @ - 1]
    /\ \E p \in Players :
         gr' = [gr EXCEPT ![g] = [GetIdle EXCEPT !.pc = "auth", !.player = p,
                                                !.table_at_start = scores]]
    /\ UNCHANGED <<scores, rivalries, now, pool, hist, faults, sr>>

GetAuth(g) ==
    /\ gr[g].pc = "auth"
    /\ \/ gr' = [gr EXCEPT ![g].pc = "conn"] /\ UNCHANGED <<pool, faults>>
       \/ GetFail(g, "auth")
    /\ UNCHANGED <<scores, rivalries, now, hist, quota, sr>>

\* state.db.get(): waits for a free connection, or fails
GetAcquire(g, next, why) ==
    \/ /\ pool > 0
       /\ pool' = pool - 1
       /\ gr' = [gr EXCEPT ![g].pc = next, ![g].held = @ + 1]
       /\ UNCHANGED faults
    \/ GetFailQuery(g, why)

GetConn(g) ==
    /\ gr[g].pc = "conn"
    /\ GetAcquire(g, "player", "pool")
    /\ UNCHANGED <<scores, rivalries, now, hist, quota, sr>>

GetPlayer(g) ==
    /\ gr[g].pc = "player"
    /\ \/ gr' = [gr EXCEPT ![g].pc = "rivals"] /\ UNCHANGED <<pool, faults>>
       \/ GetFail(g, "db")
    /\ UNCHANGED <<scores, rivalries, now, hist, quota, sr>>

GetRivalIds(g) ==
    /\ gr[g].pc = "rivals"
    /\ \/ /\ gr' = [gr EXCEPT ![g].pc = "conn1",
                              ![g].rival_ids = RivalIds(gr[g].player),
                              ![g].league_i = 1]
          /\ UNCHANGED <<pool, faults>>
       \/ GetFail(g, "db")
    /\ UNCHANGED <<scores, rivalries, now, hist, quota, sr>>

GetConn1(g) ==
    /\ gr[g].pc = "conn1"
    /\ GetAcquire(g, "conn2", "pool")
    /\ UNCHANGED <<scores, rivalries, now, hist, quota, sr>>

GetConn2(g) ==
    /\ gr[g].pc = "conn2"
    /\ GetAcquire(g, "join", "pool")
    /\ UNCHANGED <<scores, rivalries, now, hist, quota, sr>>

\* what the task does when one of the three futures has resolved to f: the
\* join returns Err, or waits for the others, or hands over the tuple; then
\* the pushes, the end of the iteration (conn1 and conn2 dropped) and, after
\* the last league, the response
GetAfterFuture(g, v, f) ==
    LET fut == [gr[g].fut EXCEPT ![v] = f]
        order == Append(gr[g].join_order, v)
        league == ALL_LEAGUES[gr[g].league_i]
        pushed == PushLeague(gr[g], league, fut)
    IN CASE TryJoin(fut) = "err" ->
              /\ gr' = [gr EXCEPT ![g] = [GetDropped(gr[g]) EXCEPT
                                             !.res = "err", !.err = "db",
                                             !.failed = (f = Failed) \/ @,
                                             !.join_order = order]]
              /\ pool' = pool + gr[g].held
         [] TryJoin(fut) = "pending" ->
              /\ gr' = [gr EXCEPT ![g].fut = fut, ![g].join_order = order,
                                  ![g].failed = (f = Failed) \/ @]
              /\ UNCHANGED pool
         [] OTHER ->
              IF gr[g].league_i < Len(ALL_LEAGUES)
              THEN /\ gr' = [gr EXCEPT ![g] =
                               [pushed EXCEPT
                                  !.pc = "conn1",
                                  !.league_i = @ + 1,
                                  !.held = @ - 2,
                                  !.fut = [w \in ViewSet |-> Pending],
                                  !.failed = (f = Failed) \/ @,
                                  !.join_order = <<>>]]
                   /\ pool' = pool + 2
              ELSE /\ gr' = [gr EXCEPT ![g] =
                               [GetDropped(pushed) EXCEPT
                                  !.res = "ok",
                                  !.response = GetRidesResponse(pushed),
                                  !.failed = (f = Failed) \/ @,
                                  !.join_order = order]]
                   /\ pool' = pool + gr[g].held

\* one of the three futures of the join resolves, in any order
GetFuture(g, v) ==
    /\ gr[g].pc = "join"
    /\ gr[g].fut[v] = Pending
    /\ \/ /\ \E list \in QueryOutputs(g, v, ALL_LEAGUES[gr[g].league_i]) :
               GetAfterFuture(g, v, Done(list))
          /\ UNCHANGED faults
       \/ /\ MayFail
          /\ faults' = faults + 1
          /\ GetAfterFuture(g, v, Failed)
    /\ UNCHANGED <<scores, rivalries, now, hist, quota, sr>>

----------------------------------------------------------------------------
(* Specifications *)

InitSend ==
    /\ scores \in InitStores
    /\ hist = HistOf(scores)
    /\ rivalries \in RivalryChoices
    /\ now = 0
    /\ pool = PoolSize
    /\ faults = 0
    /\ quota = [send |-> MaxSubmits, get |-> 0]
    /\ sr = [r \in SendReqs |-> SendIdle]
    /\ gr = [g \in GetReqs |-> GetIdle]

NextSend ==
    \/ \E r \in SendReqs :
         \/ SendStart(r)
         \/ SendAuth(r)
         \/ SendConn(r)
         \/ SendPlayer(r)
         \/ SendSong(r)
         \/ SendTop(r)
         \/ SendRivalry(r)
         \/ SendMutual(r)
         \/ SendUpsert(r)
         \/ SendEnrich(r)

Spec == InitSend /\ [][NextSend]_vars

\* a table of earlier submissions: profile[p][i] is the score of player p in
\* league i, 0 for no row
Profiles == {<<0, 0, 0>>, <<50, 80, 0>>, <<80, 50, 0>>, <<80, 0, 50>>}

StoreOf(f) ==
    {Row((p - 1) * Len(ALL_LEAGUES) + i, p, ALL_LEAGUES[i], f[p][i], p - 1) :
        <<p, i>> \in {x \in Players \X DOMAIN ALL_LEAGUES : f[x[1]][x[2]] # 0}}

RideStores == {StoreOf(f) : f \in [Players -> Profiles]}

InitRides ==
    /\ scores \in RideStores
    /\ hist = HistOf(scores)
    /\ rivalries \in RivalryChoices
    /\ now = MaxTime
    /\ pool = PoolSize
    /\ faults = 0
    /\ quota = [send |-> 0, get |-> MaxGets]
    /\ sr = [r \in SendReqs |-> SendIdle]
    /\ gr = [g \in GetReqs |-> GetIdle]

NextRides ==
    \E g \in GetReqs :
        \/ GetStart(g)
        \/ GetAuth(g)
        \/ GetConn(g)
        \/ GetPlayer(g)
        \/ GetRivalIds(g)
        \/ GetConn1(g)
        \/ GetConn2(g)
        \/ \E v \in ViewSet : GetFuture(g, v)

SpecRides == InitRides /\ [][NextRides]_vars

\* a submission and a retrieval served together, in any order and overlap
ServerSendReqs == {1}

InitServer ==
    /\ scores \in InitStores
    /\ hist = HistOf(scores)
    /\ rivalries \in RivalryChoices
    /\ now = 0
    /\ pool = PoolSize
    /\ faults = 0
    /\ quota = [send |-> Cardinality(ServerSendReqs),
                get |-> Cardinality(GetReqs)]
    /\ sr = [r \in ServerSendReqs |-> SendIdle]
    /\ gr = [g \in GetReqs |-> GetIdle]

NextServer ==
    \/ \E r \in ServerSendReqs :
         \/ SendStart(r)
         \/ SendAuth(r)
         \/ SendConn(r)
         \/ SendPlayer(r)
         \/ SendSong(r)
         \/ SendTop(r)
         \/ SendRivalry(r)
         \/ SendMutual(r)
         \/ SendUpsert(r)
         \/ SendEnrich(r)
    \/ \E g \in GetReqs :
         \/ GetStart(g)
         \/ GetAuth(g)
         \/ GetConn(g)
         \/ GetPlayer(g)
         \/ GetRivalIds(g)
         \/ GetConn1(g)
         \/ GetConn2(g)
         \/ \E v \in ViewSet : GetFuture(g, v)

SpecServer == InitServer /\ [][NextServer]_vars

\* requests sharing the pool, with failures and clients that go away: a
\* submission next to a retrieval, or two retrievals
PoolGetReqs == {1, 2}
PoolLoads == {[send |-> 1, get |-> 1], [send |-> 0, get |-> 2]}

InitPool ==
    /\ scores \in InitStores
    /\ hist = HistOf(scores)
    /\ rivalries \in RivalryChoices
    /\ now = 0
    /\ pool = PoolSize
    /\ faults = 0
    /\ quota \in PoolLoads
    /\ sr = [r \in ServerSendReqs |-> SendIdle]
    /\ gr = [g \in PoolGetReqs |-> GetIdle]

NextPool ==
    \/ \E r \in ServerSendReqs :
         \/ SendStart(r)
         \/ SendAuth(r)
         \/ SendConn(r)
         \/ SendPlayer(r)
         \/ SendSong(r)
         \/ SendTop(r)
         \/ SendRivalry(r)
         \/ SendMutual(r)
         \/ SendUpsert(r)
         \/ SendEnrich(r)
         \/ SendCancel(r)
    \/ \E g \in PoolGetReqs :
         \/ GetStart(g)
         \/ GetAuth(g)
         \/ GetConn(g)
         \/ GetPlayer(g)
         \/ GetRivalIds(g)
         \/ GetConn1(g)
         \/ GetConn2(g)
         \/ \E v \in ViewSet : GetFuture(g, v)
         \/ GetCancel(g)

SpecPool == InitPool /\ [][NextPool]_vars

----------------------------------------------------------------------------
(* Properties of send_ride *)

LeagueSet == {ALL_LEAGUES[i] : i \in DOMAIN ALL_LEAGUES}

StoredRows(p, l) ==
    {row \in scores : row.player_id = p /\ row.song_id = SongId /\ row.league = l}

\* create_or_update of the request has been executed and nothing can fail
\* any more: beat_score is the summary the response will carry
Committed(r) == sr[r].pc = "enrich"

\* the step in which send_ride returns Ok
Returns(r) == sr[r].pc = "enrich" /\ sr'[r].pc = "done"

SameBoard(r1, r2) ==
    /\ sr[r1].payload.player = sr[r2].payload.player
    /\ sr[r1].payload.song_id = sr[r2].payload.song_id
    /\ sr[r1].payload.league = sr[r2].payload.league

\* C1 Best-score invariant: after any sequence of upserts on a key, the stored
\* score is the highest score submitted for the key and the stored submission
\* time is the time of the call that first submitted that score.
BestScoreInvariant ==
    \A p \in Players, l \in LeagueSet :
        LET calls == CallsOf(hist, p, SongId, l)
            best == Max({c.score : c \in calls})
            first == Min({c.at : c \in {d \in calls : d.score = best}})
        IN calls # {} =>
             /\ StoredRows(p, l) # {}
             /\ \A row \in StoredRows(p, l) :
                    row.score = best /\ row.submitted_at = first

\* a lower score was submitted after the highest one, and the row kept both
\* the highest score and its time
WitnessBestScore ==
    \E p \in Players, l \in LeagueSet :
        \E c1, c2 \in CallsOf(hist, p, SongId, l) :
            /\ c1.score > c2.score
            /\ c2.at > c1.at
            /\ \E row \in StoredRows(p, l) :
                   row.score = c1.score /\ row.submitted_at = c1.at

\* C2 Isolation under concurrent submission: once upserts with 50 and with 80
\* have both been executed for a key, in whatever order and however the two
\* requests interleave, the row of the key holds 80.
IsolationConcurrent ==
    \A p \in Players, l \in LeagueSet :
        ( /\ \E c \in CallsOf(hist, p, SongId, l) : c.score = 50
          /\ \E c \in CallsOf(hist, p, SongId, l) : c.score = 80 )
        => /\ StoredRows(p, l) # {}
           /\ \A row \in StoredRows(p, l) : row.score = 80

\* two requests for one key are in flight together, both after their upserts,
\* and the 50 was written after the 80
WitnessIsolation ==
    \E r1, r2 \in SendReqs :
        /\ r1 # r2
        /\ Committed(r1) /\ Committed(r2)
        /\ SameBoard(r1, r2)
        /\ sr[r1].payload.score = 50
        /\ sr[r2].payload.score = 80
        /\ \E c1, c2 \in CallsOf(hist, sr[r1].payload.player, SongId,
                                 sr[r1].payload.league) :
               c1.score = 50 /\ c2.score = 80 /\ c1.at > c2.at

\* C3 Key uniqueness: a key that was submitted to has exactly one row, however
\* many submissions it got, and a key never submitted to has none.
KeyUniqueness ==
    \A p \in Players, l \in LeagueSet :
        Cardinality(StoredRows(p, l)) =
            IF CallsOf(hist, p, SongId, l) # {} THEN 1 ELSE 0

\* a key with several submissions and one row, next to a key that got its
\* first row from a submission
WitnessKeyUniqueness ==
    \E p, q \in Players, l \in LeagueSet :
        /\ p # q
        /\ Cardinality(CallsOf(hist, p, SongId, l)) >= 2
        /\ Cardinality(StoredRows(p, l)) = 1
        /\ Cardinality(StoredRows(q, l)) = 1
        /\ \E row \in StoredRows(q, l) :
               row.id = Cardinality(scores) /\ row \notin UNION InitStores

\* C4 Dethrone correctness: when other players own rows on the song and
\* league, the summary send_ride returns has the highest of their scores as
\* rival_score, the submitted score as my_score, and dethroned exactly when
\* the submitted score is strictly greater.
DethroneCorrect ==
    [][\A r \in SendReqs :
          (Returns(r) /\ sr[r].seen_others # {}) =>
              LET b == sr'[r].response.beat_score
                  top == Max({row.score : row \in sr[r].seen_others})
              IN /\ b.rival_score = top
                 /\ b.my_score = sr[r].payload.score
                 /\ b.dethroned = (sr[r].payload.score > top)]_vars

\* two other players with different scores, and a submission that equals the
\* higher one: no dethrone
WitnessDethrone ==
    \E r \in SendReqs :
        /\ Committed(r)
        /\ \E a, b \in sr[r].seen_others : a.score < b.score
        /\ sr[r].beat_score.rival_score = sr[r].payload.score
        /\ sr[r].beat_score.dethroned = FALSE

\* C5 No-dethrone sentinel: when no other player owns a row on the song and
\* league, the summary send_ride returns is the fixed sentinel whatever was
\* submitted.
NoDethroneSentinel ==
    [][\A r \in SendReqs :
          (Returns(r) /\ sr[r].seen_others = {}) =>
              sr'[r].response.beat_score =
                  [dethroned |-> FALSE, friend |-> FALSE,
                   rival_name |-> "No one", rival_score |-> 143,
                   my_score |-> 0, reign_seconds |-> 0]]_vars

\* the submitter already owned a row and submitted 80
WitnessSentinel ==
    \E r \in SendReqs :
        /\ Committed(r)
        /\ sr[r].seen_others = {}
        /\ sr[r].payload.score = 80
        /\ sr[r].beat_score.my_score = 0
        /\ Cardinality(CallsOf(hist, sr[r].payload.player, SongId,
                               sr[r].payload.league)) >= 2

\* C6 Mutual friend flag: in a returned summary naming another player as the
\* top holder, friend is true exactly when both rivalry edges between the
\* submitter and that player exist.
MutualFriendFlag ==
    [][\A r \in SendReqs :
          (Returns(r) /\ sr[r].seen_others # {}) =>
              \A p \in Players :
                  sr'[r].response.beat_score.rival_name = Username(p) =>
                      sr'[r].response.beat_score.friend =
                          ( /\ <<sr[r].payload.player, p>> \in rivalries
                            /\ <<p, sr[r].payload.player>> \in rivalries )]_vars

\* C7 Reign continuity: reign_seconds is the whole seconds between the call
\* that first submitted the top holder's stored score and the evaluation.
ReignContinuity ==
    [][\A r \in SendReqs :
          (Returns(r) /\ sr[r].seen_others # {}) =>
              LET elapsed == sr[r].evaluated_at - sr[r].top_written
                  secs == sr'[r].response.beat_score.reign_seconds
              IN /\ elapsed >= 0
                 /\ secs * TicksPerSecond <= elapsed
                 /\ elapsed < (secs + 1) * TicksPerSecond]_vars

\* the holder submitted again, without exceeding, between the write of the
\* stored score and the evaluation, and a reign of a second or more is reported
WitnessReign ==
    \E r \in SendReqs, p \in Players :
        /\ Committed(r)
        /\ sr[r].seen_others # {}
        /\ sr[r].beat_score.rival_name = Username(p)
        /\ sr[r].beat_score.reign_seconds >= 1
        /\ \E c \in CallsOf(hist, p, SongId, sr[r].payload.league) :
               c.at > sr[r].top_written /\ c.at <= sr[r].evaluated_at

\* a step of request r
SendSteps(r) == sr'[r] # sr[r]

\* C13 Dethrone evaluation failures are fatal: a step of the dethrone
\* evaluation (current-top query, rivalry-edge lookup, mutuality check) in
\* which the database fails ends the request with an error, so no summary is
\* returned.
EvaluationFailuresFatal ==
    [][\A r \in DOMAIN sr :
          ( /\ sr[r].pc \in {"top", "rivalry", "mutual"}
            /\ SendSteps(r)
            /\ faults' # faults )
          => /\ sr'[r].pc = "done"
             /\ sr'[r].res = "err"
             /\ sr'[r].response = None]_vars

\* C14 Validation before persistence: a request that is rejected for a
\* malformed track_shape or xstats field has not taken a connection and has
\* run no query by then, and the table is as it was.
ValidationFirst ==
    [][\A r \in DOMAIN sr :
          (SendSteps(r) /\ sr'[r].err = "validation")
          => /\ ~HoldsConn(sr[r])
             /\ sr[r].current_top = None
             /\ sr[r].beat_score = None
             /\ scores' = scores]_vars

\* C15 Enrichment is best-effort: the step after a successful upsert returns
\* Ok with status, song id and the summary computed before, whether
\* auto_add_metadata failed or not, and leaves the table alone; enrichment is
\* reached only by a request whose upsert has been executed.
EnrichmentBestEffort ==
    [][\A r \in DOMAIN sr :
          (sr[r].pc = "enrich" /\ SendSteps(r))
          => /\ sr'[r].pc = "done"
             /\ sr'[r].res = "ok"
             /\ sr'[r].response =
                    [status |-> "allgood",
                     song_id |-> sr[r].payload.song_id,
                     beat_score |-> sr[r].beat_score]
             /\ scores' = scores
             /\ \E c \in CallsOf(hist, sr[r].payload.player,
                                  sr[r].payload.song_id, sr[r].payload.league) :
                    c.score = sr[r].payload.score]_vars

\* auto_add_metadata failed, the failure was logged, and the request returned
\* Ok with a summary naming another player
WitnessEnrichment ==
    \E r \in DOMAIN sr, p \in Players :
        /\ sr[r].pc = "done"
        /\ sr[r].enrich_logged
        /\ sr[r].res = "ok"
        /\ sr[r].response.beat_score.dethroned
        /\ sr[r].response.beat_score.rival_name = Username(p)

\* C19 Dethroned means top: when the upsert of a request whose summary says
\* dethroned is executed, the submitter's row has a strictly higher score
\* than every other player's row of the song and league.
DethronedMeansTop ==
    [][\A r \in DOMAIN sr :
          ( /\ sr[r].pc = "upsert"
            /\ sr'[r].pc = "enrich"
            /\ sr[r].beat_score.dethroned )
          => \A mine \in RowsOfKey(scores', sr[r].payload.player,
                                    sr[r].payload.song_id, sr[r].payload.league),
                other \in OtherRows(scores', sr[r].payload.song_id,
                                    sr[r].payload.league, sr[r].payload.player) :
                 other.score < mine.score]_vars

----------------------------------------------------------------------------
(* Properties of get_rides *)

\* get_rides has returned Ok
GetReturned(g) == gr[g].pc = "done" /\ gr[g].res = "ok"

\* what the query of a view on a league may return to player p, as rides
ExpectedRides(p, v, l) ==
    LET lists ==
          IF v = "global" THEN GameGetGlobal(scores, SongId, l)
          ELSE IF v = "rival"
               THEN GameGetRivals(scores, SongId, l, GetRivals(p) \cup {p})
               ELSE GameGetNearby(scores, SongId, l, LocationOf(p))
    IN {CreateLeagueRides(l, list) : list \in lists}

\* C8 Result layout: the response lists the views global, rival (Friend),
\* nearby in this order, and every view lists the leagues Casual, Pro, Elite
\* in this order, each exactly once, also a league without scores.
LayoutOrder ==
    \A g \in GetReqs :
        GetReturned(g) =>
            LET sc == gr[g].response.scores
            IN /\ Len(sc) = 3
               /\ sc[1].score_type = "Global"
               /\ sc[2].score_type = "Friend"
               /\ sc[3].score_type = "Nearby"
               /\ \A i \in 1..3 :
                      /\ Len(sc[i].league) = 3
                      /\ sc[i].league[1].league_id = "Casual"
                      /\ sc[i].league[2].league_id = "Pro"
                      /\ sc[i].league[3].league_id = "Elite"

\* a response for a song with Casual scores and no Elite score at all
WitnessLayout ==
    \E g \in GetReqs :
        /\ GetReturned(g)
        /\ \A row \in scores : row.league # "Elite"
        /\ gr[g].response.scores[1].league[1].ride # <<>>
        /\ \A i \in 1..3 : gr[g].response.scores[i].league[3].ride = <<>>

\* C9 Concurrent fan-out correctness: whatever the order in which the three
\* sub-queries of a league complete, the response holds all three leagues and
\* the list of each view and league is an output of that view's query for
\* that league on the store.
FanOutCorrect ==
    \A g \in GetReqs :
        GetReturned(g) =>
            \A vi \in 1..3, li \in 1..3 :
                /\ Len(gr[g].response.scores[vi].league) = 3
                /\ gr[g].response.scores[vi].league[li] \in
                       ExpectedRides(gr[g].player, Views[vi], ALL_LEAGUES[li])

\* the futures of the last join completed in reverse order, and the three
\* views of Casual are pairwise different
WitnessFanOut ==
    \E g \in GetReqs :
        /\ GetReturned(g)
        /\ gr[g].join_order = <<"nearby", "rival", "global">>
        /\ LET sc == gr[g].response.scores
           IN /\ sc[1].league[1].ride # sc[2].league[1].ride
              /\ sc[1].league[1].ride # sc[3].league[1].ride
              /\ sc[2].league[1].ride # sc[3].league[1].ride
              /\ sc[3].league[1].ride # <<>>

\* C10 All-or-nothing retrieval: once a sub-query or a connection acquisition
\* of get_rides has failed, the request has returned an error and carries no
\* leaderboard data.
AllOrNothing ==
    \A g \in GetReqs :
        gr[g].failed =>
            /\ gr[g].pc = "done"
            /\ gr[g].res = "err"
            /\ gr[g].response = None

\* a sub-query of the third league failed after the first two leagues had
\* been pushed
WitnessAllOrNothing ==
    \E g \in GetReqs :
        /\ gr[g].failed
        /\ gr[g].league_i = 3
        /\ gr[g].err = "db"
        /\ gr[g].join_order # <<>>
        /\ \E row \in scores : row.league = "Casual"

\* the usernames listed by the view of index vi for the league of index li
ListedNames(g, vi, li) ==
    LET rides == gr[g].response.scores[vi].league[li].ride
    IN {rides[k].username : k \in 1..Len(rides)}

\* C16 Rival view membership: the ids handed to the rival query are the
\* requester's id and the targets of the requester's outgoing edges, nothing
\* else; every entry of a returned rival view is the requester or one of
\* these rivals; and the requester's own row is listed whenever these players
\* own no more rows in the league than a view holds.
RivalMembership ==
    \A g \in DOMAIN gr :
        LET p == gr[g].player
            ids == {p} \cup {q \in Players : <<p, q>> \in rivalries}
        IN /\ gr[g].league_i >= 1 => gr[g].rival_ids = ids
           /\ GetReturned(g) =>
                \A li \in DOMAIN ALL_LEAGUES :
                    LET rows == {row \in scores :
                                    /\ row.song_id = SongId
                                    /\ row.league = ALL_LEAGUES[li]
                                    /\ row.player_id \in ids}
                    IN /\ ListedNames(g, 2, li) \subseteq
                              {Username(q) : q \in ids}
                       /\ ( /\ \E row \in rows : row.player_id = p
                            /\ Cardinality(rows) <= TopN )
                          => Username(p) \in ListedNames(g, 2, li)

\* a requester without rivals who owns a Casual score: the rival view lists
\* that score alone, the global view lists others
WitnessRivalMembership ==
    \E g \in DOMAIN gr :
        /\ GetReturned(g)
        /\ \A q \in Players : <<gr[g].player, q>> \notin rivalries
        /\ ListedNames(g, 2, 1) = {Username(gr[g].player)}
        /\ ListedNames(g, 1, 1) # ListedNames(g, 2, 1)

----------------------------------------------------------------------------
(* Properties of submissions and retrievals served together *)

\* the rides of the view of index vi for the league of index li
ListedRides(g, vi, li) ==
    LET rides == gr[g].response.scores[vi].league[li].ride
    IN {rides[k] : k \in 1..Len(rides)}

\* the lists a view of a league may hold when computed on a given table
RidesOn(table, p, v, l) ==
    LET lists ==
          IF v = "global" THEN GameGetGlobal(table, SongId, l)
          ELSE IF v = "rival"
               THEN GameGetRivals(table, SongId, l, GetRivals(p) \cup {p})
               ELSE GameGetNearby(table, SongId, l, LocationOf(p))
    IN {CreateLeagueRides(l, list) : list \in lists}

\* C12 Cache invalidation: a retrieval never returns a score older than the
\* one stored when the request arrived, so a write completed before the
\* request is reflected in every view; and when no write ran during the
\* retrieval each view is the query's output on the table as it is.
NoStaleView ==
    \A g \in DOMAIN gr :
        GetReturned(g) =>
            \A vi \in DOMAIN Views, li \in DOMAIN ALL_LEAGUES :
                /\ \A ride \in ListedRides(g, vi, li),
                      row \in gr[g].table_at_start :
                       ( /\ row.song_id = SongId
                         /\ row.league = ALL_LEAGUES[li]
                         /\ Username(row.player_id) = ride.username )
                       => ride.score >= row.score
                /\ gr[g].table_at_start = scores =>
                       gr[g].response.scores[vi].league[li] \in
                           RidesOn(scores, gr[g].player, Views[vi],
                                   ALL_LEAGUES[li])

\* a submission replaced a stored 50 by 80 and returned; a retrieval that
\* arrived afterwards lists the 80 first in the global view of that league
WitnessNoStaleView ==
    \E g \in DOMAIN gr, r \in DOMAIN sr :
        /\ GetReturned(g)
        /\ sr[r].pc = "done" /\ sr[r].res = "ok"
        /\ gr[g].table_at_start = scores
        /\ \E old \in UNION InitStores, row \in scores :
               /\ SameKey(old, row.player_id, row.song_id, row.league)
               /\ old.score = 50 /\ row.score = 80
               /\ row.league = ALL_LEAGUES[1]
               /\ gr[g].response.scores[1].league[1].ride[1] = RideOf(row)

\* C20 Snapshot consistency: in a returned response, a player listed in two
\* views of one league has the same score in both.
SnapshotConsistent ==
    \A g \in DOMAIN gr :
        GetReturned(g) =>
            \A li \in DOMAIN ALL_LEAGUES, vi, vj \in DOMAIN Views :
                \A a \in ListedRides(g, vi, li), b \in ListedRides(g, vj, li) :
                    a.username = b.username => a.score = b.score

----------------------------------------------------------------------------
(* Properties of the requests sharing the pool *)

GetSteps(g) == gr'[g] # gr[g]

InFlight == {<<"send", r>> : r \in {q \in DOMAIN sr : ~Free(sr[q])}} \cup
            {<<"get", g>> : g \in {q \in DOMAIN gr : ~Free(gr[q])}}

\* connections checked out by the requests
CheckedOut ==
    Cardinality({r \in DOMAIN sr : HoldsConn(sr[r])}) +
    Cardinality({x \in (DOMAIN gr) \X (1..PoolSize) : x[2] <= gr[x[1]].held})

\* C11 Authentication is fatal and comes first: a request begins with the
\* ticket check, holding no connection and having run no query; a failed
\* check ends the request with an error in that very step, with the pool,
\* the scores table and the record of upserts as they were; and a request
\* gets to acquire its connection only from a check that succeeded.
AuthFirst ==
    [][/\ \A r \in DOMAIN sr :
            /\ (Free(sr[r]) /\ SendSteps(r)) => sr'[r].pc = "auth"
            /\ (sr[r].pc = "auth" /\ SendSteps(r)) =>
                   /\ ~HoldsConn(sr[r])
                   /\ sr[r].current_top = None
                   /\ UNCHANGED <<pool, scores, hist>>
                   /\ IF faults' # faults
                      THEN /\ sr'[r].pc = "done"
                           /\ sr'[r].res # "ok"
                           /\ sr'[r].response = None
                      ELSE sr'[r].pc = "conn"
            /\ (SendSteps(r) /\ sr'[r].pc = "conn") => sr[r].pc = "auth"
       /\ \A g \in DOMAIN gr :
            /\ (Free(gr[g]) /\ GetSteps(g)) => gr'[g].pc = "auth"
            /\ (gr[g].pc = "auth" /\ GetSteps(g)) =>
                   /\ gr[g].held = 0
                   /\ gr[g].league_i = 0
                   /\ UNCHANGED <<pool, scores, hist>>
                   /\ IF faults' # faults
                      THEN /\ gr'[g].pc = "done"
                           /\ gr'[g].res # "ok"
                           /\ gr'[g].response = None
                           /\ gr'[g].held = 0
                      ELSE gr'[g].pc = "conn"
            /\ (GetSteps(g) /\ gr'[g].pc = "conn") => gr[g].pc = "auth"]_vars

\* a retrieval was rejected by the ticket check while a submission was past
\* its own check and held the only connection checked out
WitnessAuthFirst ==
    \E g \in DOMAIN gr, r \in DOMAIN sr :
        /\ gr[g].pc = "done" /\ gr[g].err = "auth"
        /\ HoldsConn(sr[r])
        /\ pool = PoolSize - 1

\* C17 Connection release: the connections checked out are exactly those
\* held by requests in flight (a request that has ended in any way holds
\* none), never more than the pool has; a retrieval holds at most three; and
\* with no request in flight the pool is full.
ConnectionRelease ==
    /\ pool >= 0
    /\ pool + CheckedOut = PoolSize
    /\ \A g \in DOMAIN gr :
           /\ gr[g].held \in 0..3
           /\ Free(gr[g]) => gr[g].held = 0
    /\ InFlight = {} => pool = PoolSize

\* a retrieval was dropped inside the join of the second league, holding
\* three connections; the other request has ended too, and everything is back
\* in the pool
WitnessConnectionRelease ==
    \E g \in DOMAIN gr :
        /\ gr[g].pc = "done" /\ gr[g].res = "cancelled"
        /\ gr[g].join_order # <<>>
        /\ gr[g].league_i = 2
        /\ InFlight = {}
        /\ quota.send = 0 /\ quota.get = 0
        /\ pool = PoolSize

\* C18 Pool progress: whenever requests are in flight, one of them is not
\* waiting for a connection of an empty pool, so a connection will come back.
PoolProgress ==
    InFlight # {} =>
        \/ pool > 0
        \/ \E r \in DOMAIN sr : ~Free(sr[r]) /\ sr[r].pc # "conn"
        \/ \E g \in DOMAIN gr :
               ~Free(gr[g]) /\ gr[g].pc \notin {"conn", "conn1", "conn2"}

====
